---------------------------- MODULE Spec2Model ----------------------------
(***************************************************************************)
(* Two-tower movie recommendation demo: data loading and dense indexing,   *)
(* the Load / Train / Test button handlers, the per-epoch batching loop    *)
(* and the exclusion-aware top-K recommendation.                           *)
(*                                                                         *)
(* The repository holds four variants of the application:                  *)
(*   "part000"  src/unnamed/part_000  (app.js, window._mlData)             *)
(*   "part002"  src/unnamed/part_002  (loadData/trainModel/testModel)      *)
(*   "twotower" src/week4/two-tower.js (buildIndexing, btnLoad.onclick)    *)
(*   "appjs"    src/week4/app.js       (class MovieRecommendationApp)      *)
(* The variable variant says which of them a behaviour runs.               *)
(***************************************************************************)
EXTENDS Integers, Sequences, FiniteSets, TLC

VARIABLES
    variant,        \* which variant of the application runs
    \* ---- data loading and indexing
    raw,            \* the parsed lines of u.data, in file order
    items,          \* ids of the items that have a metadata entry (u.item)
    maxInteractIn,  \* the value of the maxInteractions input field
    interactions,   \* the global interaction list after a load
    indexed,        \* the interaction list the index maps were built from
    userIndex,      \* external user id -> dense index
    itemIndex,      \* external item id -> dense index
    indexToUser,    \* dense index i (stored at i+1) -> external user id
    indexToItem,    \* dense index i (stored at i+1) -> external item id
    usersMap,       \* per-user profile: key -> sequence of {item, rating, ts}
    loads,          \* number of loads completed
    prevLoad,       \* what the previous load produced (for comparison)
    \* ---- recommendation
    scores,         \* score of item i (stored at i+1) for the chosen user
    excludeSet,     \* dense indices of the items the user has rated
    topK,           \* number of recommendations asked for
    recStart,       \* part_000 recommendForUser: start of the next chunk
    results,        \* part_000 recommendForUser: candidates collected so far
    chunkLog,       \* part_000 recommendForUser: the index ranges scored so far
    uEmbCount,      \* part_000 recommendForUser: user embeddings computed
    recommended,    \* the list handed to the renderer
    recPc,          \* "idle", "scan" (inside the chunk loop), "done"
    \* ---- one training run's batching
    pairs,          \* the training pairs handed to the run, in list order
    batchSizeIn,    \* the value of the batch size field
    lossMode,       \* the loss of the run: "inbatch", "bpr", "unknown"
    shuffles,       \* permutations of the pair list drawn by the run so far
    epochs,         \* the number of epochs asked for
    shuffled,       \* the order the current epoch walks the pairs in
    epStart,        \* start of the next batch
    trained,        \* pairs a train step was taken on in the current epoch
    skipped,        \* pairs of batches the loop passed over in the current epoch
    batchLog,       \* the batches the loop sliced in the current epoch, in order
    lossHistory,    \* the run's loss history
    stepLog,        \* the gradient steps the run has taken, in order
    epoch,          \* epochs begun
    epPc,           \* "idle", "batches" (inside an epoch), "done" (epoch over)
    \* ---- the button handlers
    btnLoad,        \* the Load button is enabled
    btnTrain,       \* the Train button is enabled
    btnTest,        \* the Test button is enabled
    dataLoaded,     \* window._mlData / isDataLoaded is set
    isTraining,     \* app.js this.isTraining
    idxGen,         \* how many times the index maps have been built
    modelGen,       \* the idxGen the global model was constructed under, 0: no model
    loadPc,         \* load handler: "idle", "fetch" (suspended at its fetch)
    testPc,         \* test handler: "idle", "scoring" (suspended inside the scoring)
    runPc,          \* train run r: "idle", "steps" (suspended inside the loop)
    runSteps,       \* train run r: gradient steps taken
    runIdx,         \* train run r: the idxGen its precomputed pairs were indexed under
    runModel,       \* train run r: the idxGen its own model object was constructed under
    raised,         \* train run r: errors its train steps have raised
    status,         \* what the status line shows
    clicks,         \* button clicks so far
    lastUse,        \* the latest train step or scoring: model and index generation used
    scoredMid,      \* runs that were between first and last step at the latest scoring
    eligible,       \* the indexed data holds a user with at least 20 ratings
    \* ---- the historical top-K query
    ratedList,      \* the chosen user's ratings, in the order the profile holds them
    histK,          \* number of entries asked for
    historicalTop,  \* the list handed to the renderer
    histPc,         \* "idle", "done"
    \* ---- one train step of a model and the scoring that follows it
    embU,           \* the embedding of the user of pair i of the batch
    embP,           \* the embedding of the positive item of pair i
    mlpOut,         \* the MLP's output for user i and item j
    useBPR,         \* the pairwise loss is selected
    useFeatures,    \* genre or user features are switched on
    trainScore,     \* the scores the loss of the step was computed on
    serveScore,     \* the scores of the items for the served user
    userFeat,       \* userFeatArray: one feature value per user
    useUserFeat,    \* the user features are switched on
    servedUser,     \* the user the latest scoring was asked for (0: none yet)
    lossKind,       \* "none", "finite", "NaN"
    stepOf,         \* "none", "twotower", "part000", "deep"
    dlPc,           \* "idle", "stepped", "served"
    \* ---- the parsing of the ratings file
    lines,          \* the lines of the ratings file, each split into its fields
    parser,         \* "app1" (app.js 69-75), "app2" (app.js 725-760), "twotower"
    stored,         \* the interactions kept by the parser
    parsePc,        \* "idle", "done"
    \* ---- the generation of the sample data set
    sUser,          \* generateSampleData: the user whose ratings are being drawn
    numRatings,     \* generateSampleData: the number of ratings drawn for that user
    ratedItems,     \* generateSampleData: the movies rated by that user so far
    redraws,        \* generateSampleData: draws of the current do-while that hit a rated movie
    sampleOut,      \* generateSampleData: the interactions pushed so far
    samplePc        \* "idle", "user", "draw", "done"

loadVars == <<raw, items, maxInteractIn, interactions, indexed, userIndex,
              itemIndex, indexToUser, indexToItem, usersMap, loads, prevLoad>>

recVars == <<scores, excludeSet, topK, recStart, results, chunkLog, uEmbCount, recommended,
            recPc>>

epochVars == <<pairs, batchSizeIn, lossMode, shuffles, epochs, shuffled, epStart, trained,
              skipped, batchLog, lossHistory, stepLog, epoch, epPc>>

uiVars == <<btnLoad, btnTrain, btnTest, dataLoaded, isTraining, idxGen, modelGen, loadPc,
            testPc, runPc, runSteps, runIdx, runModel, raised, status, clicks, lastUse,
            scoredMid, eligible>>

histVars == <<ratedList, histK, historicalTop, histPc>>

stepVars == <<embU, embP, mlpOut, useBPR, useFeatures, userFeat, useUserFeat, servedUser,
              trainScore, serveScore, lossKind,
              stepOf, dlPc>>

parseVars == <<lines, parser, stored, parsePc>>

sampleVars == <<sUser, numRatings, ratedItems, redraws, sampleOut, samplePc>>

vars == <<variant, loadVars, recVars, epochVars, uiVars, histVars, stepVars, parseVars, sampleVars>>

\* what the actions of one part leave alone
notLoad == <<variant, recVars, epochVars, uiVars, histVars, stepVars, parseVars, sampleVars>>

notRec == <<variant, loadVars, epochVars, uiVars, histVars, stepVars, parseVars, sampleVars>>

\* (a run reads its loss mode once, before the first epoch)
notEpoch == <<variant, lossMode, loadVars, recVars, uiVars, histVars, stepVars, parseVars, sampleVars>>

notUI == <<variant, loadVars, recVars, epochVars, histVars, stepVars, parseVars, sampleVars>>

notHist == <<variant, loadVars, recVars, epochVars, uiVars, stepVars, parseVars, sampleVars>>

notStep == <<variant, loadVars, recVars, epochVars, uiVars, histVars, parseVars, sampleVars>>

notParse == <<variant, loadVars, recVars, epochVars, uiVars, histVars, stepVars, sampleVars>>

notSample == <<variant, loadVars, recVars, epochVars, uiVars, histVars, stepVars, parseVars>>

Variants == {"part000", "part002", "twotower", "appjs"}

(***************************************************************************)
(* Bounds of the model.                                                    *)
(***************************************************************************)
MaxRecords == 2     \* lines in u.data
MaxCutoff == 2      \* largest value typed into the maxInteractions field
MaxLoads == 2       \* loads per behaviour
MinInteract == 1    \* the floor Math.max(1000, ...) of part_000, scaled to MaxRecords
MaxItems == 4       \* items scored by a recommendation
MaxK == 3           \* largest k asked for (the code asks for 10)
BATCH == 2          \* chunk size of recommendForUser (1024), scaled to MaxItems
MaxPairs == 3       \* training pairs of a run
MaxBatch == 3       \* largest value typed into the batch size field
MaxEpochs == 2      \* largest number of epochs asked for
MinBatch == 2       \* the floor Math.max(8, ...) of part_000, scaled to MaxPairs
MaxRuns == 2        \* train handlers in flight at once
StepsPerRun == 2    \* gradient steps of a training run, each followed by a yield
MaxClicks == 5      \* button clicks per behaviour
AppTrainCap == 1    \* the 50000 of app.js trainModel, scaled to MaxRecords
MaxRated == 3       \* ratings of the user of a historical query
MaxHistK == 3       \* largest K of a historical query (the code asks for 10)
F32Max == 4         \* largest finite 32-bit float (3.4e38 in the browser)
PairsInBatch == 2   \* pairs of the batch of a train step
MaxLines == 2       \* lines of a ratings file
SampleMovies == 3   \* movies of the sample data set (15 in app.js)
SampleUsers == 2    \* users of the sample data set (100 in app.js)
MinRatings == 2     \* fewest ratings drawn for a sample user (10 in app.js)
MaxRedraws == 2     \* draws of one do-while that are followed

UserIds == {1, 2}
ItemIds == {1, 2}
Ratings == {3, 5}
Timestamps == {1, 2}

DefaultMaxInt == 80000

DefaultBatch == 128

(***************************************************************************)
(* Helpers: JavaScript arrays, Set, Map, Array.prototype.sort.             *)
(***************************************************************************)
Range(s) == {s[i] : i \in DOMAIN s}

Min(a, b) == IF a < b THEN a ELSE b

Max(a, b) == IF a > b THEN a ELSE b

\* Array.prototype.slice(0, n)
Slice0(s, n) == SubSeq(s, 1, Min(Len(s), n))

\* Array.prototype.filter
FilterSeq(s, Keep(_)) == SelectSeq(s, Keep)

\* Array.prototype.sort(cmp) is stable (ECMAScript 2019): Before(a, b) is cmp(a, b) < 0.
\* The element at position i lands after every element that sorts before it and
\* after the equal elements that precede it in the input.
SortBy(s, Before(_, _)) ==
    LET n == Len(s)
        rank(i) == Cardinality({j \in 1..n :
                        \/ Before(s[j], s[i])
                        \/ /\ ~Before(s[i], s[j])
                           /\ j < i}) + 1
    IN [p \in 1..n |-> s[CHOOSE i \in 1..n : rank(i) = p]]

\* The permutations of 1..n: the outcomes of a Fisher-Yates shuffle.
Perms(n) == {f \in [1..n -> 1..n] : \A i, j \in 1..n : f[i] = f[j] => i = j}

Permute(s, f) == [i \in 1..Len(s) |-> s[f[i]]]

\* The multiset of the elements of a sequence.
SeqToBag(s) == [x \in Range(s) |-> Cardinality({i \in DOMAIN s : s[i] = x})]


RECURSIVE SetToSeqAsc(_)
\* The elements of a finite set of integers in ascending order.
SetToSeqAsc(S) ==
    IF S = {} THEN <<>>
    ELSE LET m == CHOOSE x \in S : \A y \in S : x <= y
         IN <<m>> \o SetToSeqAsc(S \ {m})

\* A build that forgets the Set and keeps every occurrence.
KeepEveryOccurrence(s) == s

\* [...new Set(s)] / Array.from(new Set(s)): the distinct elements in first-seen order.
DistinctSeq(s) ==
    LET first == {i \in 1..Len(s) : \A j \in 1..(i - 1) : s[j] # s[i]}
        pos == SetToSeqAsc(first)
    IN [k \in 1..Len(pos) |-> s[pos[k]]]

\* ids.sort((a,b)=>a-b)
SortAsc(s) == SortBy(s, LAMBDA a, b : a < b)

\* new Map(ids.map((v,i)=>[v,i])) / ids.forEach((v,i)=>map.set(v,i)): a later entry
\* for the same key replaces the earlier one.
DenseMap(ids) ==
    [v \in Range(ids) |->
        (CHOOSE i \in 1..Len(ids) :
            /\ ids[i] = v
            /\ \A j \in 1..Len(ids) : ids[j] = v => j <= i) - 1]

MapSeq(s, F(_)) == [i \in 1..Len(s) |-> F(s[i])]

UserIdsOf(list) == MapSeq(list, LAMBDA x : x.userId)

ItemIdsOf(list) == MapSeq(list, LAMBDA x : x.itemId)

\* rating desc, then ts desc
ByRatingThenRecency(a, b) ==
    \/ a.rating > b.rating
    \/ a.rating = b.rating /\ a.ts > b.ts

(***************************************************************************)
(* part_000 loadData, lines 117-203.                                       *)
(***************************************************************************)
\* Every line kept, metadata or not.
Part000ParsedAll == raw

\* lines 119-130: lines whose item has no metadata are skipped
Part000Parsed == FilterSeq(raw, LAMBDA x : x.itemId \in items)

\* line 133
Part000MaxInteract == Max(MinInteract, maxInteractIn)

\* lines 134-137: the shuffles that can happen; the identity alone when nothing is cut
Part000Shuffles ==
    IF Len(Part000Parsed) > Part000MaxInteract
    THEN Perms(Len(Part000Parsed))
    ELSE {[i \in 1..Len(Part000Parsed) |-> i]}

Part000Cut(f) ==
    IF Len(Part000Parsed) > Part000MaxInteract
    THEN Slice0(Permute(Part000Parsed, f), Part000MaxInteract)
    ELSE Part000Parsed

\* lines 139-151: userToRated, each list sorted by rating desc, ts desc
Part000UserToRated(list) ==
    [u \in Range(UserIdsOf(list)) |->
        SortBy(MapSeq(SelectSeq(list, LAMBDA x : x.userId = u),
                      LAMBDA x : [item |-> x.itemId, rating |-> x.rating, ts |-> x.ts]),
               ByRatingThenRecency)]

\* line 156: Array.from(userToRated.keys()).sort((a,b)=>a-b)
Part000UserIds(list) == SortAsc(DistinctSeq(UserIdsOf(list)))

\* lines 162-163
Part000ItemIds(list) == SortAsc(DistinctSeq(ItemIdsOf(list)))

Part000Load(f) ==
    LET list == Part000Cut(f)
        uIds == Part000UserIds(list)
        iIds == Part000ItemIds(list)
        uMap == DenseMap(uIds)
        iMap == DenseMap(iIds)
    IN [interactions |-> MapSeq(list, LAMBDA x : [u |-> uMap[x.userId], i |-> iMap[x.itemId],
                                                  rating |-> x.rating, ts |-> x.ts]),
        indexed |-> list,
        userIndex |-> uMap, itemIndex |-> iMap,
        indexToUser |-> uIds, indexToItem |-> iIds,
        usersMap |-> Part000UserToRated(list)]

(***************************************************************************)
(* part_002 loadData, lines 42-66.                                         *)
(***************************************************************************)
\* lines 51-52: parseInt(...) of the field, then slice(0, maxInt)
Part002Cut == Slice0(raw, maxInteractIn)

\* line 55: [...new Set(interactions.map(x => x.userId))]
Part002Users(list) == DistinctSeq(UserIdsOf(list))

\* line 56
Part002ItemSet(list) == DistinctSeq(ItemIdsOf(list))

\* lines 62-66: userToItems, keyed by the external user id, in list order
Part002UserToItems(list) ==
    [u \in Range(UserIdsOf(list)) |->
        MapSeq(SelectSeq(list, LAMBDA x : x.userId = u),
               LAMBDA x : [item |-> x.itemId, rating |-> x.rating, ts |-> x.ts])]

Part002Load ==
    LET list == Part002Cut
        uIds == Part002Users(list)
        iIds == Part002ItemSet(list)
    IN [interactions |-> list,
        indexed |-> list,
        userIndex |-> DenseMap(uIds), itemIndex |-> DenseMap(iIds),
        indexToUser |-> uIds, indexToItem |-> iIds,
        usersMap |-> Part002UserToItems(list)]

(***************************************************************************)
(* two-tower.js btnLoad.onclick, lines 246-283, and buildIndexing, 194-217.*)
(***************************************************************************)
\* line 249: parseInt(inputMaxInt.value,10) || 80000
TwoTowerMaxInt == IF maxInteractIn = 0 THEN DefaultMaxInt ELSE maxInteractIn

\* line 272: interactions.sort((a,b)=>a.ts - b.ts)
TwoTowerSorted == SortBy(raw, LAMBDA a, b : a.ts < b.ts)

\* line 198
InteractionsTrim(list, maxInteractions) == Slice0(list, maxInteractions)

\* lines 197-201: uSet, then Array.from(uSet).sort((a,b)=>a-b)
TwoTowerIndexUser(trim) == SortAsc(DistinctSeq(UserIdsOf(trim)))

TwoTowerIndexItem(trim) == SortAsc(DistinctSeq(ItemIdsOf(trim)))

\* lines 207-216: usersMap keyed by the dense user index, sorted by recency desc
TwoTowerUsersMap(trim, uMap, iMap) ==
    [u0 \in {uMap[x.userId] : x \in Range(trim)} |->
        SortBy(MapSeq(SelectSeq(trim, LAMBDA x : uMap[x.userId] = u0),
                      LAMBDA x : [item |-> iMap[x.itemId], rating |-> x.rating, ts |-> x.ts]),
               LAMBDA a, b : a.ts > b.ts)]

buildIndexing(list, maxInteractions) ==
    LET trim == InteractionsTrim(list, maxInteractions)
        uIds == TwoTowerIndexUser(trim)
        iIds == TwoTowerIndexItem(trim)
        uMap == DenseMap(uIds)
        iMap == DenseMap(iIds)
    IN [interactions |-> list,
        indexed |-> trim,
        userIndex |-> uMap, itemIndex |-> iMap,
        indexToUser |-> uIds, indexToItem |-> iIds,
        usersMap |-> TwoTowerUsersMap(trim, uMap, iMap)]

TwoTowerLoad == buildIndexing(TwoTowerSorted, TwoTowerMaxInt)

(***************************************************************************)
(* app.js buildUserItemMappings, lines 807-845, and calculateUserTopRated, *)
(* lines 847-857, as called by the three load handlers.                    *)
(***************************************************************************)
\* line 817
AppUniqueUsers(list) == SortAsc(DistinctSeq(UserIdsOf(list)))

\* line 825
AppUniqueItems(list) == SortAsc(DistinctSeq(ItemIdsOf(list)))

\* lines 832-842, then the in-place ratings.sort of line 851
AppUserRatings(list) ==
    [u \in Range(UserIdsOf(list)) |->
        SortBy(MapSeq(SelectSeq(list, LAMBDA x : x.userId = u),
                      LAMBDA x : [item |-> x.itemId, rating |-> x.rating, ts |-> x.ts]),
               ByRatingThenRecency)]

buildUserItemMappings(list) ==
    LET uIds == AppUniqueUsers(list)
        iIds == AppUniqueItems(list)
    IN [interactions |-> list,
        indexed |-> list,
        userIndex |-> DenseMap(uIds), itemIndex |-> DenseMap(iIds),
        indexToUser |-> uIds, indexToItem |-> iIds,
        usersMap |-> AppUserRatings(list)]

AppLoad == buildUserItemMappings(raw)

\* No data loaded.
LoadIdle ==
    /\ raw = <<>>
    /\ items = {}
    /\ maxInteractIn = 0
    /\ interactions = <<>>
    /\ indexed = <<>>
    /\ userIndex = <<>>
    /\ itemIndex = <<>>
    /\ indexToUser = <<>>
    /\ indexToItem = <<>>
    /\ usersMap = <<>>
    /\ loads = 0
    /\ prevLoad = [none |-> TRUE]

\* No recommendation asked for.
RecIdle ==
    /\ scores = <<>>
    /\ excludeSet = {}
    /\ topK = 0
    /\ recStart = 0
    /\ results = <<>>
    /\ chunkLog = <<>>
    /\ uEmbCount = 0
    /\ recommended = <<>>
    /\ recPc = "idle"

\* No training run.
EpochIdle ==
    /\ pairs = <<>>
    /\ batchSizeIn = 0
    /\ lossMode = "unknown"
    /\ shuffles = 0
    /\ epochs = 0
    /\ shuffled = <<>>
    /\ epStart = 0
    /\ trained = <<>>
    /\ skipped = <<>>
    /\ batchLog = <<>>
    /\ lossHistory = <<>>
    /\ stepLog = <<>>
    /\ epoch = 0
    /\ epPc = "idle"

\* No sample data generated.
SampleIdle ==
    /\ sUser = 0
    /\ numRatings = 0
    /\ ratedItems = {}
    /\ redraws = 0
    /\ sampleOut = {}
    /\ samplePc = "idle"

\* No ratings file parsed.
ParseIdle ==
    /\ lines = <<>>
    /\ parser = "none"
    /\ stored = <<>>
    /\ parsePc = "idle"

\* No train step taken.
StepIdle ==
    /\ embU = <<>>
    /\ embP = <<>>
    /\ mlpOut = <<>>
    /\ useBPR = FALSE
    /\ useFeatures = FALSE
    /\ userFeat = <<>>
    /\ useUserFeat = FALSE
    /\ servedUser = 0
    /\ trainScore = <<>>
    /\ serveScore = <<>>
    /\ lossKind = "none"
    /\ stepOf = "none"
    /\ dlPc = "idle"

\* No historical query asked.
HistIdle ==
    /\ ratedList = <<>>
    /\ histK = 0
    /\ historicalTop = <<>>
    /\ histPc = "idle"

Runs == 1..MaxRuns

\* The page as served: only Load can be clicked, no handler is running.
UIIdle ==
    /\ btnLoad = TRUE
    /\ btnTrain = FALSE
    /\ btnTest = FALSE
    /\ dataLoaded = FALSE
    /\ isTraining = FALSE
    /\ idxGen = 0
    /\ modelGen = 0
    /\ loadPc = "idle"
    /\ testPc = "idle"
    /\ runPc = [r \in Runs |-> "idle"]
    /\ runSteps = [r \in Runs |-> 0]
    /\ runIdx = [r \in Runs |-> 0]
    /\ runModel = [r \in Runs |-> 0]
    /\ raised = [r \in Runs |-> 0]
    /\ status = "ready"
    /\ clicks = 0
    /\ lastUse = [op |-> "none", model |-> 0, index |-> 0]
    /\ scoredMid = {}
    /\ eligible = FALSE

(***************************************************************************)
(* The load handlers as actions (fetches succeed; the handlers' awaits and *)
(* the buttons are the subject of the handler model further down).         *)
(***************************************************************************)
\* What a load leaves behind, order-normalised: the two index maps and the
\* multiset of every user's profile entries.
Snapshot(res) ==
    [userIndex |-> res.userIndex,
     itemIndex |-> res.itemIndex,
     profile |-> [k \in DOMAIN res.usersMap |-> SeqToBag(res.usersMap[k])]]

NoLoad == [none |-> TRUE]

CurrentLoad ==
    [interactions |-> interactions, indexed |-> indexed,
     userIndex |-> userIndex, itemIndex |-> itemIndex,
     indexToUser |-> indexToUser, indexToItem |-> indexToItem,
     usersMap |-> usersMap]

ApplyLoad(res) ==
    /\ loads < MaxLoads
    /\ interactions' = res.interactions
    /\ indexed' = res.indexed
    /\ userIndex' = res.userIndex
    /\ itemIndex' = res.itemIndex
    /\ indexToUser' = res.indexToUser
    /\ indexToItem' = res.indexToItem
    /\ usersMap' = res.usersMap
    /\ loads' = loads + 1
    /\ prevLoad' = IF loads = 0 THEN NoLoad ELSE Snapshot(CurrentLoad)
    /\ UNCHANGED <<raw, items, maxInteractIn, notLoad>>

LoadPart000 ==
    /\ variant = "part000"
    /\ \E f \in Part000Shuffles : ApplyLoad(Part000Load(f))

LoadPart002 ==
    /\ variant = "part002"
    /\ ApplyLoad(Part002Load)

LoadTwoTower ==
    /\ variant = "twotower"
    /\ ApplyLoad(TwoTowerLoad)

LoadApp ==
    /\ variant = "appjs"
    /\ ApplyLoad(AppLoad)

Records == [userId : UserIds, itemId : ItemIds, rating : Ratings, ts : Timestamps]

RawFiles == UNION {[1..n -> Records] : n \in 1..MaxRecords}

\* The metadata file lists every item, or misses the last one.
ItemFiles == {ItemIds, ItemIds \ {CHOOSE i \in ItemIds : \A j \in ItemIds : j <= i}}

InitLoad ==
    /\ variant \in Variants
    /\ raw \in RawFiles
    /\ items \in ItemFiles
    /\ maxInteractIn \in 0..MaxCutoff
    /\ interactions = <<>>
    /\ indexed = <<>>
    /\ userIndex = <<>>
    /\ itemIndex = <<>>
    /\ indexToUser = <<>>
    /\ indexToItem = <<>>
    /\ usersMap = <<>>
    /\ loads = 0
    /\ prevLoad = NoLoad
    /\ RecIdle
    /\ EpochIdle
    /\ UIIdle
    /\ HistIdle
    /\ StepIdle
    /\ ParseIdle
    /\ SampleIdle

NextLoad == LoadPart000 \/ LoadPart002 \/ LoadTwoTower \/ LoadApp

SpecLoad == InitLoad /\ [][NextLoad]_vars


(***************************************************************************)
(* Properties of the index build.                                          *)
(***************************************************************************)
\* map and rev are inverse bijections between ids and 0..Cardinality(ids)-1
\* (rev holds the external id of dense index i at position i+1).
IsBijection(map, rev, ids) ==
    /\ DOMAIN map = ids
    /\ Len(rev) = Cardinality(ids)
    /\ \A e \in ids : map[e] \in 0..(Cardinality(ids) - 1) /\ rev[map[e] + 1] = e
    /\ \A i \in 0..(Cardinality(ids) - 1) : rev[i + 1] \in ids /\ map[rev[i + 1]] = i

\* C1: after every index build the user map and the item map are each a bijection
\* between the distinct external ids of the interactions that were indexed and
\* [0, N), N the number of distinct ids; toExternal(toDense(e)) = e and
\* toDense(toExternal(i)) = i.
C1_IndexBijection ==
    loads > 0 =>
        /\ IsBijection(userIndex, indexToUser, Range(UserIdsOf(indexed)))
        /\ IsBijection(itemIndex, indexToItem, Range(ItemIdsOf(indexed)))

\* C1 witness: an index was built from two interactions of the same user on two
\* different items: the duplicate user id collapsed to one index.
C1_Witness ==
    /\ loads > 0
    /\ Len(indexed) = 2
    /\ Cardinality(DOMAIN userIndex) = 1
    /\ Cardinality(DOMAIN itemIndex) = 2

\* C9 (as claimed): dense indices are assigned in ascending order of the external
\* id, whatever the order of the interaction records.
C9_AscendingIdOrder ==
    loads > 0 =>
        /\ \A a, b \in DOMAIN userIndex : (userIndex[a] < userIndex[b]) <=> (a < b)
        /\ \A a, b \in DOMAIN itemIndex : (itemIndex[a] < itemIndex[b]) <=> (a < b)

\* C10 (as claimed): with the same raw records and the same cutoff, a second load
\* produces the index maps and (order-normalised) profiles of the first.
C10_LoadDeterministic ==
    loads >= 2 => Snapshot(CurrentLoad) = prevLoad

(***************************************************************************)
(* Recommendation: score every item, drop the rated ones, sort by score    *)
(* descending, keep the first k.                                           *)
(*   part_000 recommendForUser, lines 539-569 (chunks of BATCH items)      *)
(*   part_004 TwoTowerModel.getRecommendations, lines 224-252 (app.js)     *)
(*   two-tower.js btnTest.onclick, lines 418-424                           *)
(*   part_002 testModel, lines 139-146                                     *)
(***************************************************************************)
Scores == {-1, 0, 1}

numItems == Len(scores)

\* { index: globalIndex, score: scores[i] }
Entry(i, sc) == [index |-> i, score |-> sc[i + 1]]

\* A scan that excludes nothing.
HasNothing(set, x) == FALSE

\* userRatedSet.has(globalIndex) / excludeItemIndices.includes(i) / rated.has(p.i)
Has(set, x) == x \in set

\* Ties put the larger index first.
SortByScoreTiesReversed(cands) ==
    SortBy(cands, LAMBDA a, b : \/ a.score > b.score
                                \/ a.score = b.score /\ a.index > b.index)

\* Ascending by score.
ScoreAsc(a, b) == a.score < b.score

\* the comparator (a,b)=>b.score - a.score: a sorts before b when it is negative
ScoreDesc(a, b) == a.score > b.score

\* results.sort((a,b)=>b.score - a.score)
SortByScore(cands) == SortBy(cands, ScoreDesc)

\* for (i = start; i < end; i++) { if (excluded) continue; push({index, score}) }
ScanItems(sc, excl, start, end) ==
    LET keep == SetToSeqAsc({i \in start..(end - 1) : ~Has(excl, i)})
    IN [j \in 1..Len(keep) |-> Entry(keep[j], sc)]

\* Truncation to k before the rated items are dropped.
TruncateThenExclude(sc, rated, k) ==
    SelectSeq(Slice0(SortByScore([j \in 1..Len(sc) |-> Entry(j - 1, sc)]), k),
              LAMBDA p : ~Has(rated, p.index))

\* part_004 lines 238-250
getRecommendations(sc, excludeItemIndices, k) ==
    Slice0(SortByScore(ScanItems(sc, excludeItemIndices, 0, Len(sc))), k)

\* two-tower.js lines 422-424: scores.map((s,i)=>({i,s})).filter(...), sort, slice
TwoTowerTopRec(sc, rated, k) ==
    Slice0(SortByScore(SelectSeq([j \in 1..Len(sc) |-> Entry(j - 1, sc)],
                                 LAMBDA p : ~Has(rated, p.index))), k)

\* part_002 lines 139-146: scores is the Float32Array of dataSync(), and the map of
\* a typed array stores ToNumber of what the callback returns, NaN for an object.
\* The filter keeps every NaN (revItemIdx[undefined] is in no set), the sort leaves
\* them, slice keeps k, the last map stores NaN again.
NaNEntry == [nan |-> TRUE]

Part002Ranked(sc, k) == [j \in 1..Min(k, Len(sc)) |-> NaNEntry]

\* A chunk that stops one item early.
ChunkEndShort(start) == Min(numItems, start + BATCH) - 1

\* part_000 line 548: const end = Math.min(numItems, start+BATCH)
ChunkEnd(start) == Min(numItems, start + BATCH)

\* part_000 line 539-547: the call, up to the first chunk
RecStart ==
    /\ variant = "part000"
    /\ recPc = "idle"
    /\ recPc' = "scan"
    /\ recStart' = 0
    /\ results' = <<>>
    /\ chunkLog' = <<>>
    /\ uEmbCount' = 1
    /\ UNCHANGED <<notRec, scores, excludeSet, topK, recommended>>

\* part_000 lines 547-564: one chunk of the loop, up to its await tf.nextFrame()
RecChunk ==
    /\ variant = "part000"
    /\ recPc = "scan"
    /\ recStart < numItems
    /\ results' = results \o ScanItems(scores, excludeSet, recStart, ChunkEnd(recStart))
    /\ chunkLog' = Append(chunkLog, [start |-> recStart, end |-> ChunkEnd(recStart)])
    /\ recStart' = recStart + BATCH
    /\ UNCHANGED <<notRec, scores, excludeSet, topK, recommended, recPc, uEmbCount>>

\* part_000 lines 565-568: the loop is over; sort and slice
RecReturn ==
    /\ variant = "part000"
    /\ recPc = "scan"
    /\ recStart >= numItems
    /\ recommended' = Slice0(SortByScore(results), topK)
    /\ recPc' = "done"
    /\ UNCHANGED <<notRec, scores, excludeSet, topK, recStart, results, chunkLog, uEmbCount>>

RecDone(list) ==
    /\ recPc = "idle"
    /\ recommended' = list
    /\ recPc' = "done"
    /\ UNCHANGED <<notRec, scores, excludeSet, topK, recStart, results, chunkLog, uEmbCount>>

\* app.js line 1127
RecApp ==
    /\ variant = "appjs"
    /\ RecDone(getRecommendations(scores, excludeSet, topK))

\* two-tower.js lines 418-424
RecTwoTower ==
    /\ variant = "twotower"
    /\ RecDone(TwoTowerTopRec(scores, excludeSet, topK))

\* part_002 lines 136-146
RecPart002 ==
    /\ variant = "part002"
    /\ RecDone(Part002Ranked(scores, topK))

InitRec ==
    /\ variant \in Variants
    /\ LoadIdle
    /\ EpochIdle
    /\ UIIdle
    /\ HistIdle
    /\ StepIdle
    /\ ParseIdle
    /\ SampleIdle
    /\ scores \in UNION {[1..n -> Scores] : n \in 1..MaxItems}
    /\ excludeSet \in SUBSET (0..(MaxItems - 1))
    /\ topK \in 1..MaxK
    /\ recStart = 0
    /\ results = <<>>
    /\ chunkLog = <<>>
    /\ uEmbCount = 0
    /\ recommended = <<>>
    /\ recPc = "idle"

NextRec == RecStart \/ RecChunk \/ RecReturn \/ RecApp \/ RecTwoTower \/ RecPart002

SpecRec == InitRec /\ [][NextRec]_vars

(***************************************************************************)
(* Properties of the recommendation.                                       *)
(***************************************************************************)
\* The catalog items the user has not rated.
Unseen == {i \in 0..(numItems - 1) : i \notin excludeSet}

\* The item indices of the returned list (part_002 returns entries without one).
Returned == {recommended[j].index : j \in {n \in DOMAIN recommended :
                                            "index" \in DOMAIN recommended[n]}}

ReturnsItems == recPc = "done" /\ variant # "part002"

\* C5: a recommendation result never contains an item index of the exclude set,
\* and neither does the candidate list while it is being collected.
C5_NoExcludedItem ==
    /\ \A j \in DOMAIN results : results[j].index \notin excludeSet
    /\ recPc = "done" => Returned \cap excludeSet = {}

\* C5 witness: a rated item has a score above every returned one and is not in
\* the non-empty result.
C5_Witness ==
    /\ ReturnsItems
    /\ recommended # <<>>
    /\ \E e \in excludeSet :
          /\ e < numItems
          /\ \A j \in DOMAIN recommended : scores[e + 1] > recommended[j].score

DropLastOfBatch(list, start, size) ==
    SubSeq(list, start + 1, Min(Len(list), start + size) - 1)

\* list.slice(start, start + size)
BatchAt(list, start, size) == SubSeq(list, start + 1, Min(Len(list), start + size))

\* part_000 line 238: Math.max(8, parseInt(batchSizeIn.value))
Part000BatchSize == Max(MinBatch, batchSizeIn)

\* two-tower.js line 294: parseInt(inputBatch.value,10) || 128
TwoTowerBatchSize == IF batchSizeIn = 0 THEN DefaultBatch ELSE batchSizeIn

\* An epoch starts: the pairs are walked in shuffledList order.
EpochBegin(shuffledList) ==
    /\ epPc \in {"idle", "done"}
    /\ epoch < epochs
    /\ shuffled' = shuffledList
    /\ epStart' = 0
    /\ trained' = <<>>
    /\ skipped' = <<>>
    /\ batchLog' = <<>>
    /\ epoch' = epoch + 1
    /\ epPc' = "batches"
    /\ UNCHANGED <<notEpoch, batchSizeIn, epochs, lossHistory, stepLog>>

\* The epoch walks the order it was given, no permutation drawn.
Replay(list) ==
    /\ EpochBegin(list)
    /\ UNCHANGED shuffles

\* A Fisher-Yates pass over list: the epoch walks a newly drawn permutation of it.
Reshuffle(list) ==
    /\ \E f \in Perms(Len(list)) : EpochBegin(Permute(list, f))
    /\ shuffles' = shuffles + 1

\* part_000 lines 208-209 (and 267): every epoch's generator shuffles the indices
Part000EpochBegin ==
    /\ variant = "part000"
    /\ Reshuffle(pairs)
    /\ UNCHANGED pairs

\* part_002 line 95: tf.util.shuffle(interactions) shuffles the global list in place
Part002EpochBegin ==
    /\ variant = "part002"
    /\ Reshuffle(pairs)
    /\ pairs' = shuffled'

\* two-tower.js lines 329-334 and 341: the pairs are shuffled once, before the
\* first epoch; every epoch walks them in that order
TwoTowerEpochBegin ==
    /\ variant = "twotower"
    /\ IF epoch = 0 THEN Reshuffle(pairs) ELSE Replay(shuffled)
    /\ UNCHANGED pairs

\* app.js lines 934-937: tf.util.createShuffledIndices per epoch
AppEpochBegin ==
    /\ variant = "appjs"
    /\ Reshuffle(pairs)
    /\ UNCHANGED pairs

\* What a train step can return as its loss: a finite number or NaN / Infinity.
Losses == {"finite", "NaN"}

\* A gradient step or a loss history entry: the epoch and the batch of the epoch
\* (counted from 1) it belongs to, and the loss; batch 0 stands for the epoch as
\* a whole.
StepId(e, n, loss) == [epoch |-> e, batch |-> n, loss |-> loss]

\* app.js lines 945, 961: the sum of the epoch's losses over their count, 0 when
\* there is none; one non-finite loss makes the average non-finite.
AppAvgLoss ==
    IF \E n \in DOMAIN stepLog : stepLog[n].epoch = epoch /\ stepLog[n].loss = "NaN"
    THEN "NaN" ELSE "finite"

\* One pass of the batch loop: a train step on the batch, or the batch passed over;
\* push: the loop appends the loss of a step to the history; negs: the negatives
\* that come with the batch.
BatchStep(size, skip, push, loss, negs) ==
    /\ epPc = "batches"
    /\ epStart < Len(shuffled)
    /\ IF skip
       THEN /\ skipped' = skipped \o BatchAt(shuffled, epStart, size)
            /\ UNCHANGED trained
       ELSE /\ trained' = trained \o BatchAt(shuffled, epStart, size)
            /\ UNCHANGED skipped
    /\ batchLog' = Append(batchLog, [batch |-> BatchAt(shuffled, epStart, size),
                                      step |-> ~skip, negs |-> negs])
    /\ stepLog' = IF skip THEN stepLog
                   ELSE Append(stepLog, StepId(epoch, Len(batchLog) + 1, loss))
    /\ lossHistory' = IF skip \/ ~push THEN lossHistory
                       ELSE Append(lossHistory, StepId(epoch, Len(batchLog) + 1, loss))
    /\ epStart' = epStart + size
    /\ UNCHANGED <<notEpoch, pairs, batchSizeIn, epochs, shuffled, epoch, epPc, shuffles>>

\* The dense item indices of a training run: window._mlData.numItems of them.
EpochItemIdx == 0..1

\* part_000 line 270: batchGenerator(inter, batchSize, lossMode==='bpr' ? 1 : 0)
NegativeSamples == IF lossMode = "bpr" THEN 1 ELSE 0

\* Negatives drawn with Math.ceil: 1 to numItems.
NegativesOffByOne(b, n) ==
    IF n > 0 THEN [1..(b * n) -> {i + 1 : i \in EpochItemIdx}] ELSE {<<>>}

\* part_000 lines 219-227: no negatives (null) when negativeSamples is 0, otherwise
\* b * n draws of Math.floor(Math.random() * numItems)
SampledNegatives(b, n) ==
    IF n > 0 THEN [1..(b * n) -> EpochItemIdx] ELSE {<<>>}

\* part_000 lines 209-228 and 269-285: lossHistory.push(lossScalar), line 284
Part000Batch ==
    /\ variant = "part000"
    /\ \E loss \in Losses :
       \E negs \in SampledNegatives(Len(BatchAt(shuffled, epStart, Part000BatchSize)),
                                    NegativeSamples) :
          BatchStep(Part000BatchSize, FALSE, TRUE, loss, negs)

\* part_002 lines 96-101
Part002Batch ==
    /\ variant = "part002"
    /\ \E loss \in Losses : BatchStep(batchSizeIn, FALSE, FALSE, loss, <<>>)

\* two-tower.js lines 344-361: if (batch.length < 2) continue; otherwise the step
\* and lossHistory.push(combined)
TwoTowerBatch ==
    /\ variant = "twotower"
    /\ \E loss \in Losses :
          BatchStep(TwoTowerBatchSize,
                    Len(BatchAt(shuffled, epStart, TwoTowerBatchSize)) < 2, TRUE, loss,
                    <<>>)

\* app.js lines 939-948
AppBatch ==
    /\ variant = "appjs"
    /\ \E loss \in Losses : BatchStep(batchSizeIn, FALSE, FALSE, loss, <<>>)

\* the batch loop is over; app.js lines 961-962 push the epoch's average loss
EpochEnd ==
    /\ epPc = "batches"
    /\ epStart >= Len(shuffled)
    /\ epPc' = "done"
    /\ lossHistory' = IF variant = "appjs" THEN Append(lossHistory, StepId(epoch, 0, AppAvgLoss))
                                            ELSE lossHistory
    /\ UNCHANGED <<notEpoch, pairs, batchSizeIn, epochs, shuffled, epStart, trained,
                   skipped, batchLog, stepLog, epoch, shuffles>>

TrainingPairs == [u : {0, 1}, i : EpochItemIdx]

\* part_000 line 240 (lossChoice), two-tower.js line 296 (optBPR), part_004 lines
\* 187-203 (computeLoss: always in-batch); part_002 calls model.trainBatch, which
\* no file of the repository defines.
LossModes(v) ==
    CASE v \in {"part000", "twotower"} -> {"inbatch", "bpr"}
      [] v = "appjs" -> {"inbatch"}
      [] OTHER -> {"unknown"}

InitEpoch ==
    /\ variant \in Variants
    /\ LoadIdle
    /\ RecIdle
    /\ UIIdle
    /\ HistIdle
    /\ StepIdle
    /\ ParseIdle
    /\ SampleIdle
    /\ pairs \in UNION {[1..n -> TrainingPairs] : n \in 0..MaxPairs}
    /\ batchSizeIn \in (IF variant \in {"part000", "twotower"} THEN 0..MaxBatch
                                                               ELSE 1..MaxBatch)
    /\ lossMode \in LossModes(variant)
    /\ shuffles = 0
    /\ epochs \in 1..MaxEpochs
    /\ shuffled = <<>>
    /\ epStart = 0
    /\ trained = <<>>
    /\ skipped = <<>>
    /\ batchLog = <<>>
    /\ lossHistory = <<>>
    /\ stepLog = <<>>
    /\ epoch = 0
    /\ epPc = "idle"

NextEpoch ==
    \/ Part000EpochBegin \/ Part002EpochBegin \/ TwoTowerEpochBegin \/ AppEpochBegin
    \/ Part000Batch \/ Part002Batch \/ TwoTowerBatch \/ AppBatch
    \/ EpochEnd

SpecEpoch == InitEpoch /\ [][NextEpoch]_vars

\* The effective batch size of the running variant.
batchSize ==
    CASE variant = "part000" -> Part000BatchSize
      [] variant = "twotower" -> TwoTowerBatchSize
      [] OTHER -> batchSizeIn

Click ==
    /\ clicks < MaxClicks
    /\ clicks' = clicks + 1

Use(op, model, index) == [op |-> op, model |-> model, index |-> index]

\* The runs that have taken their first gradient step and not yet their last.
MidRuns == {r \in Runs : runPc[r] = "steps" /\ runSteps[r] >= 1 /\ runSteps[r] < StepsPerRun}

\* The first run slot not in use.
FreeRun(r) == runPc[r] = "idle" /\ \A q \in Runs : q < r => runPc[q] # "idle"

\* A run starts and takes its first gradient step, on pairs indexed under gen.
StartRun(r, gen) ==
    /\ runPc' = [runPc EXCEPT ![r] = "steps"]
    /\ runSteps' = [runSteps EXCEPT ![r] = 1]
    /\ runIdx' = [runIdx EXCEPT ![r] = gen]
    /\ runModel' = [runModel EXCEPT ![r] = gen]
    /\ raised' = [raised EXCEPT ![r] = 0]

StepRun(r) ==
    /\ runPc[r] = "steps"
    /\ runSteps[r] < StepsPerRun
    /\ runSteps' = [runSteps EXCEPT ![r] = @ + 1]
    /\ UNCHANGED <<runPc, runIdx, runModel, raised>>

EndRun(r) ==
    /\ runPc[r] = "steps"
    /\ runSteps[r] = StepsPerRun
    /\ runPc' = [runPc EXCEPT ![r] = "idle"]
    /\ runSteps' = [runSteps EXCEPT ![r] = 0]
    /\ UNCHANGED <<runIdx, runModel, raised>>

runVars == <<runPc, runSteps, runIdx, runModel, raised>>

\* A train step of run r raises: the run takes no further step.
RaiseAndStop(r) ==
    /\ runPc[r] = "steps"
    /\ runSteps[r] < StepsPerRun
    /\ raised' = [raised EXCEPT ![r] = @ + 1]
    /\ runPc' = [runPc EXCEPT ![r] = "idle"]
    /\ runSteps' = [runSteps EXCEPT ![r] = 0]
    /\ UNCHANGED <<runIdx, runModel>>

\* A train step of run r raises and the loop goes on to the next batch.
RaiseAndContinue(r) ==
    /\ runPc[r] = "steps"
    /\ runSteps[r] < StepsPerRun
    /\ raised' = [raised EXCEPT ![r] = @ + 1]
    /\ runSteps' = [runSteps EXCEPT ![r] = @ + 1]
    /\ UNCHANGED <<runPc, runIdx, runModel>>

\* A load whose fetch fails: the status line, and nothing of the data.
LoadFailureSwallowed(stat) ==
    /\ loadPc' = "failed"
    /\ UNCHANGED <<status, idxGen, dataLoaded, btnTrain>>

LoadFailure(stat) ==
    /\ loadPc' = "failed"
    /\ status' = stat
    /\ UNCHANGED <<idxGen, dataLoaded, btnTrain>>

(***************************************************************************)
(* part_002: loadData 16-74, trainModel 77-119, testModel 122-149. No      *)
(* handler disables a button; a gradient step group is one epoch, followed *)
(* by await tf.nextFrame() (line 113).                                     *)
(***************************************************************************)
\* lines 16-22: up to the fetches
Part002LoadClick ==
    /\ variant = "part002"
    /\ loadPc # "fetch"
    /\ Click
    /\ loadPc' = "fetch"
    /\ status' = "loading"
    /\ UNCHANGED <<notUI, btnLoad, btnTrain, btnTest, dataLoaded, isTraining, idxGen,
                   modelGen, testPc, runVars, lastUse, scoredMid, eligible>>

\* lines 24-73: a failed fetch only reports; otherwise the maps are rebuilt
Part002LoadDone ==
    /\ variant = "part002"
    /\ loadPc = "fetch"
    /\ \E ok \in BOOLEAN :
          IF ok
          THEN /\ loadPc' = "idle"
               /\ idxGen' = idxGen + 1
               /\ dataLoaded' = TRUE
               /\ btnTrain' = TRUE
               /\ status' = "loaded"
          ELSE LoadFailure("loadError")
    /\ UNCHANGED <<notUI, btnLoad, btnTest, isTraining, modelGen, testPc, runVars,
                   clicks, lastUse, scoredMid, eligible>>

\* lines 77-113: the model is constructed for the current maps (line 86); the first
\* epoch looks every pair up in the current maps and ends at tf.nextFrame()
Part002TrainClick ==
    /\ variant = "part002"
    /\ btnTrain
    /\ Click
    /\ modelGen' = idxGen
    /\ \E r \in Runs : FreeRun(r) /\ StartRun(r, idxGen)
    /\ lastUse' = Use("train", idxGen, idxGen)
    /\ status' = "training"
    /\ UNCHANGED <<notUI, btnLoad, btnTrain, btnTest, dataLoaded, isTraining, idxGen,
                   loadPc, testPc, scoredMid, eligible>>

\* lines 94-113: a later epoch, on the global model and the global maps
Part002TrainStep ==
    /\ variant = "part002"
    /\ \E r \in Runs : StepRun(r)
    /\ lastUse' = Use("train", modelGen, idxGen)
    /\ status' = "training"
    /\ UNCHANGED <<notUI, btnLoad, btnTrain, btnTest, dataLoaded, isTraining, idxGen,
                   modelGen, loadPc, testPc, clicks, scoredMid, eligible>>

\* lines 94-113 with no try around them: an error of the epoch's fit rejects the
\* promise of trainModel, which nothing awaits
Part002TrainRaise ==
    /\ variant = "part002"
    /\ \E r \in Runs : RaiseAndStop(r)
    /\ UNCHANGED <<notUI, status, btnLoad, btnTrain, btnTest, dataLoaded, isTraining, idxGen,
                   modelGen, loadPc, testPc, clicks, lastUse, scoredMid, eligible>>

\* lines 115-118
Part002TrainDone ==
    /\ variant = "part002"
    /\ \E r \in Runs : EndRun(r)
    /\ btnTest' = TRUE
    /\ status' = "trained"
    /\ UNCHANGED <<notUI, btnLoad, btnTrain, dataLoaded, isTraining, idxGen, modelGen,
                   loadPc, testPc, clicks, lastUse, scoredMid, eligible>>

\* lines 122-149: synchronous; the only guard is if (!model) return
Part002TestClick ==
    /\ variant = "part002"
    /\ btnTest
    /\ Click
    /\ modelGen # 0
    /\ lastUse' = Use("score", modelGen, idxGen)
    /\ scoredMid' = MidRuns
    /\ UNCHANGED <<notUI, status, btnLoad, btnTrain, btnTest, dataLoaded, isTraining, idxGen,
                   modelGen, loadPc, testPc, runVars, eligible>>

(***************************************************************************)
(* app.js: loadDataFromFiles 556-609, loadFromUpload 611-638,              *)
(* loadSampleData 649-666, trainModel 859-920, trainModelIteration 922-965,*)
(* testModel 1096-1135. The load buttons are never disabled.               *)
(***************************************************************************)
\* lines 556-561 / 611-622: up to the first fetch or file read
AppLoadClick ==
    /\ variant = "appjs"
    /\ loadPc # "fetch"
    /\ Click
    /\ loadPc' = "fetch"
    /\ status' = "loading"
    /\ UNCHANGED <<notUI, btnLoad, btnTrain, btnTest, dataLoaded, isTraining, idxGen,
                   modelGen, testPc, runVars, lastUse, scoredMid, eligible>>

\* lines 597-608 / 624-637
AppLoadDone ==
    /\ variant = "appjs"
    /\ loadPc = "fetch"
    /\ \E ok \in BOOLEAN :
          IF ok
          THEN /\ loadPc' = "idle"
               /\ idxGen' = idxGen + 1
               /\ dataLoaded' = TRUE
               /\ btnTrain' = TRUE
               /\ status' = "loaded"
          ELSE LoadFailure("loadError")
    /\ UNCHANGED <<notUI, btnLoad, btnTest, isTraining, modelGen, testPc, runVars,
                   clicks, lastUse, scoredMid, eligible>>

\* lines 649-666: synchronous
AppLoadSample ==
    /\ variant = "appjs"
    /\ Click
    /\ idxGen' = idxGen + 1
    /\ dataLoaded' = TRUE
    /\ btnTrain' = TRUE
    /\ status' = "loaded"
    /\ UNCHANGED <<notUI, btnLoad, btnTest, isTraining, modelGen, loadPc, testPc, runVars,
                   lastUse, scoredMid, eligible>>

\* lines 859-905 and 922-953: the guard, the buttons, the models, the index
\* arrays of the run, then batch 0 and its tf.nextFrame()
AppTrainClick ==
    /\ variant = "appjs"
    /\ btnTrain
    /\ Click
    /\ IF ~dataLoaded \/ isTraining
       THEN UNCHANGED <<btnTrain, btnTest, isTraining, modelGen, runVars, lastUse, status>>
       ELSE /\ isTraining' = TRUE
            /\ status' = "training"
            /\ btnTrain' = FALSE
            /\ btnTest' = FALSE
            /\ modelGen' = idxGen
            /\ \E r \in Runs : FreeRun(r) /\ StartRun(r, idxGen)
            /\ lastUse' = Use("train", idxGen, idxGen)
    /\ UNCHANGED <<notUI, btnLoad, dataLoaded, idxGen, loadPc, testPc, scoredMid, eligible>>

\* lines 939-958: a later batch, on the run's own model and index arrays
AppTrainStep ==
    /\ variant = "appjs"
    /\ \E r \in Runs : StepRun(r) /\ lastUse' = Use("train", runModel[r], runIdx[r])
    /\ UNCHANGED <<notUI, status, btnLoad, btnTrain, btnTest, dataLoaded, isTraining, idxGen,
                   modelGen, loadPc, testPc, clicks, scoredMid, eligible>>

\* lines 946-958: the catch inside the batch loop writes to the console and the
\* loop goes on
AppTrainRaise ==
    /\ variant = "appjs"
    /\ \E r \in Runs : RaiseAndContinue(r)
    /\ UNCHANGED <<notUI, status, btnLoad, btnTrain, btnTest, dataLoaded, isTraining, idxGen,
                   modelGen, loadPc, testPc, clicks, lastUse, scoredMid, eligible>>

\* lines 907-912
AppTrainDone ==
    /\ variant = "appjs"
    /\ \E r \in Runs : EndRun(r)
    /\ isTraining' = FALSE
    /\ btnTest' = TRUE
    /\ status' = "trained"
    /\ UNCHANGED <<notUI, btnLoad, btnTrain, dataLoaded, idxGen, modelGen, loadPc, testPc,
                   clicks, lastUse, scoredMid, eligible>>

\* lines 1096-1135: getRecommendations is one tf.tidy, nothing suspends
AppTestClick ==
    /\ variant = "appjs"
    /\ btnTest
    /\ Click
    /\ modelGen # 0
    /\ lastUse' = Use("score", modelGen, idxGen)
    /\ scoredMid' = MidRuns
    /\ status' = "tested"
    /\ UNCHANGED <<notUI, btnLoad, btnTrain, btnTest, dataLoaded, isTraining, idxGen,
                   modelGen, loadPc, testPc, runVars, eligible>>

(***************************************************************************)
(* two-tower.js: btnLoad.onclick 246-283, btnTrain.onclick 286-402,        *)
(* btnTest.onclick 405-469. Train and Test disable the three buttons; Load *)
(* disables none.                                                          *)
(***************************************************************************)
\* lines 246-254: up to the fetches
TwoTowerLoadClick ==
    /\ variant = "twotower"
    /\ btnLoad
    /\ loadPc # "fetch"
    /\ Click
    /\ loadPc' = "fetch"
    /\ status' = "loading"
    /\ UNCHANGED <<notUI, btnLoad, btnTrain, btnTest, dataLoaded, isTraining, idxGen,
                   modelGen, testPc, runVars, lastUse, scoredMid, eligible>>

\* lines 255-282
TwoTowerLoadDone ==
    /\ variant = "twotower"
    /\ loadPc = "fetch"
    /\ \E ok \in BOOLEAN :
          IF ok
          THEN /\ loadPc' = "idle"
               /\ idxGen' = idxGen + 1
               /\ dataLoaded' = TRUE
               /\ btnTrain' = TRUE
               /\ btnTest' = FALSE
               /\ eligible' \in BOOLEAN
               /\ status' = "loaded"
          ELSE LoadFailure("loadError") /\ UNCHANGED <<btnTest, eligible>>
    /\ UNCHANGED <<notUI, btnLoad, isTraining, modelGen, testPc, runVars, clicks,
                   lastUse, scoredMid>>

\* lines 286-350 and part_004 298-323: the buttons, buildIndexing again (line 301),
\* the model, the pairs, the first batch up to the read of its loss
TwoTowerTrainClick ==
    /\ variant = "twotower"
    /\ btnTrain
    /\ Click
    /\ btnLoad' = FALSE
    /\ btnTrain' = FALSE
    /\ btnTest' = FALSE
    /\ idxGen' = idxGen + 1
    /\ modelGen' = idxGen + 1
    /\ \E r \in Runs : FreeRun(r) /\ StartRun(r, idxGen + 1)
    /\ lastUse' = Use("train", idxGen + 1, idxGen + 1)
    /\ eligible' \in BOOLEAN
    /\ status' = "training"
    /\ UNCHANGED <<notUI, dataLoaded, isTraining, loadPc, testPc, scoredMid>>

\* lines 344-369: a later batch, on the global twoTower and the run's own pairs
TwoTowerTrainStep ==
    /\ variant = "twotower"
    /\ \E r \in Runs : StepRun(r) /\ lastUse' = Use("train", modelGen, runIdx[r])
    /\ status' = "training"
    /\ UNCHANGED <<notUI, btnLoad, btnTrain, btnTest, dataLoaded, isTraining, idxGen,
                   modelGen, loadPc, testPc, clicks, scoredMid, eligible>>

\* lines 395-401: the catch around the whole handler
TwoTowerTrainRaise ==
    /\ variant = "twotower"
    /\ \E r \in Runs : RaiseAndStop(r)
    /\ status' = "trainError"
    /\ btnLoad' = TRUE
    /\ btnTrain' = TRUE
    /\ btnTest' = FALSE
    /\ UNCHANGED <<notUI, dataLoaded, isTraining, idxGen, modelGen, loadPc, testPc, clicks,
                   lastUse, scoredMid, eligible>>

\* lines 374-394
TwoTowerTrainDone ==
    /\ variant = "twotower"
    /\ \E r \in Runs : EndRun(r)
    /\ btnTest' = TRUE
    /\ btnLoad' = TRUE
    /\ status' = "trained"
    /\ UNCHANGED <<notUI, btnTrain, dataLoaded, isTraining, idxGen, modelGen, loadPc,
                   testPc, clicks, lastUse, scoredMid, eligible>>

\* lines 405-420: the buttons, the user, the scores of the global twoTower, up to
\* the read of the score tensor; line 411 returns from inside the try when no
\* user has 20 ratings, and the handler has no finally
TwoTowerTestClick ==
    /\ variant = "twotower"
    /\ btnTest
    /\ testPc = "idle"
    /\ Click
    /\ btnLoad' = FALSE
    /\ btnTrain' = FALSE
    /\ btnTest' = FALSE
    /\ IF eligible
       THEN /\ lastUse' = Use("score", modelGen, idxGen)
            /\ scoredMid' = MidRuns
            /\ testPc' = "scoring"
            /\ status' = "testing"
       ELSE /\ status' = "noUser"
            /\ UNCHANGED <<lastUse, scoredMid, testPc>>
    /\ UNCHANGED <<notUI, dataLoaded, isTraining, idxGen, modelGen, loadPc, runVars,
                   eligible>>

\* lines 464-468: an exception of the scoring or the rendering reaches the catch
TwoTowerTestRaise ==
    /\ variant = "twotower"
    /\ testPc = "scoring"
    /\ testPc' = "idle"
    /\ btnLoad' = TRUE
    /\ btnTrain' = TRUE
    /\ btnTest' = TRUE
    /\ status' = "testError"
    /\ UNCHANGED <<notUI, dataLoaded, isTraining, idxGen, modelGen, loadPc, runVars,
                   clicks, lastUse, scoredMid, eligible>>

\* lines 421-463: rank, render, enable the three buttons
TwoTowerTestDone ==
    /\ variant = "twotower"
    /\ testPc = "scoring"
    /\ testPc' = "idle"
    /\ btnLoad' = TRUE
    /\ btnTrain' = TRUE
    /\ btnTest' = TRUE
    /\ status' = "tested"
    /\ UNCHANGED <<notUI, dataLoaded, isTraining, idxGen, modelGen, loadPc, runVars,
                   clicks, lastUse, scoredMid, eligible>>

(***************************************************************************)
(* part_000: loadData 89-204, trainClick 233-302, testClick 436-536,       *)
(* recommendForUser 539-569, the click listeners 572-605.                  *)
(***************************************************************************)
\* lines 572-576 and 89-91
Part000LoadClick ==
    /\ variant = "part000"
    /\ btnLoad
    /\ loadPc # "fetch"
    /\ Click
    /\ btnLoad' = FALSE
    /\ loadPc' = "fetch"
    /\ status' = "loading"
    /\ UNCHANGED <<notUI, btnTrain, btnTest, dataLoaded, isTraining, idxGen, modelGen,
                   testPc, runVars, lastUse, scoredMid, eligible>>

\* lines 92-203, or a failed fetch and lines 577-581
Part000LoadDone ==
    /\ variant = "part000"
    /\ loadPc = "fetch"
    /\ \E ok \in BOOLEAN :
          IF ok
          THEN /\ loadPc' = "idle"
               /\ idxGen' = idxGen + 1
               /\ dataLoaded' = TRUE
               /\ btnTrain' = TRUE
               /\ btnTest' = FALSE
               /\ eligible' \in BOOLEAN
               /\ status' = "loaded"
               /\ UNCHANGED btnLoad
          ELSE /\ LoadFailure("loadError")
               /\ btnLoad' = TRUE
               /\ UNCHANGED <<btnTest, eligible>>
    /\ UNCHANGED <<notUI, isTraining, modelGen, testPc, runVars, clicks, lastUse,
                   scoredMid>>

\* lines 584-586 and 233-285: the models, the interaction list of the run, the
\* first batch and its tf.nextFrame()
Part000TrainClick ==
    /\ variant = "part000"
    /\ btnTrain
    /\ Click
    /\ btnTrain' = FALSE
    /\ IF ~dataLoaded
       THEN UNCHANGED <<modelGen, runVars, lastUse, status>>
       ELSE /\ status' = "training"
            /\ modelGen' = idxGen
            /\ \E r \in Runs : FreeRun(r) /\ StartRun(r, idxGen)
            /\ lastUse' = Use("train", idxGen, idxGen)
    /\ UNCHANGED <<notUI, btnLoad, btnTest, dataLoaded, isTraining, idxGen, loadPc,
                   testPc, scoredMid, eligible>>

\* lines 269-285: a later batch, on the global model and the run's interactions
Part000TrainStep ==
    /\ variant = "part000"
    /\ \E r \in Runs : StepRun(r) /\ lastUse' = Use("train", modelGen, runIdx[r])
    /\ UNCHANGED <<notUI, status, btnLoad, btnTrain, btnTest, dataLoaded, isTraining, idxGen,
                   modelGen, loadPc, testPc, clicks, scoredMid, eligible>>

\* lines 587-591: the catch of the click listener
Part000TrainRaise ==
    /\ variant = "part000"
    /\ \E r \in Runs : RaiseAndStop(r)
    /\ status' = "trainError"
    /\ btnTrain' = TRUE
    /\ UNCHANGED <<notUI, btnLoad, btnTest, dataLoaded, isTraining, idxGen, modelGen, loadPc,
                   testPc, clicks, lastUse, scoredMid, eligible>>

\* lines 296-297
Part000TrainDone ==
    /\ variant = "part000"
    /\ \E r \in Runs : EndRun(r)
    /\ btnTest' = TRUE
    /\ status' = "trained"
    /\ UNCHANGED <<notUI, btnLoad, btnTrain, dataLoaded, isTraining, idxGen, modelGen,
                   loadPc, testPc, clicks, lastUse, scoredMid, eligible>>

\* lines 594-596, 436-480 and 539-554: up to the read of the first chunk's scores
Part000TestClick ==
    /\ variant = "part000"
    /\ btnTest
    /\ testPc = "idle"
    /\ Click
    /\ IF eligible
       THEN /\ btnTest' = FALSE
            /\ lastUse' = Use("score", modelGen, idxGen)
            /\ scoredMid' = MidRuns
            /\ testPc' = "scoring"
            /\ status' = "testing"
       ELSE \* testClick returns at line 469 and the finally of line 603 runs
            /\ btnTest' = TRUE
            /\ status' = "noUser"
            /\ UNCHANGED <<lastUse, scoredMid, testPc>>
    /\ UNCHANGED <<notUI, btnLoad, btnTrain, dataLoaded, isTraining, idxGen, modelGen,
                   loadPc, runVars, eligible>>

\* lines 597-603: an exception of testClick reaches the catch, then finally
Part000TestRaise ==
    /\ variant = "part000"
    /\ testPc = "scoring"
    /\ testPc' = "idle"
    /\ btnTest' = TRUE
    /\ status' = "testError"
    /\ UNCHANGED <<notUI, btnLoad, btnTrain, dataLoaded, isTraining, idxGen, modelGen,
                   loadPc, runVars, clicks, lastUse, scoredMid, eligible>>

\* lines 555-568 and 600-603: the remaining chunks, then finally
Part000TestDone ==
    /\ variant = "part000"
    /\ testPc = "scoring"
    /\ testPc' = "idle"
    /\ lastUse' = Use("score", modelGen, idxGen)
    /\ scoredMid' = MidRuns
    /\ btnTest' = TRUE
    /\ status' = "tested"
    /\ UNCHANGED <<notUI, btnLoad, btnTrain, dataLoaded, isTraining, idxGen, modelGen,
                   loadPc, runVars, clicks, eligible>>

InitUI ==
    /\ variant \in Variants
    /\ LoadIdle
    /\ RecIdle
    /\ EpochIdle
    /\ UIIdle
    /\ HistIdle
    /\ StepIdle
    /\ ParseIdle
    /\ SampleIdle

NextUI ==
    \/ Part002LoadClick \/ Part002LoadDone \/ Part002TrainClick \/ Part002TrainStep
    \/ Part002TrainDone \/ Part002TestClick
    \/ AppLoadClick \/ AppLoadDone \/ AppLoadSample \/ AppTrainClick \/ AppTrainStep
    \/ AppTrainDone \/ AppTestClick
    \/ TwoTowerLoadClick \/ TwoTowerLoadDone \/ TwoTowerTrainClick \/ TwoTowerTrainStep
    \/ TwoTowerTrainDone \/ TwoTowerTestClick \/ TwoTowerTestDone
    \/ Part000LoadClick \/ Part000LoadDone \/ Part000TrainClick \/ Part000TrainStep
    \/ Part000TrainDone \/ Part000TestClick \/ Part000TestDone
    \/ Part002TrainRaise \/ AppTrainRaise \/ TwoTowerTrainRaise \/ Part000TrainRaise
    \/ TwoTowerTestRaise \/ Part000TestRaise

SpecUI == InitUI /\ [][NextUI]_vars

\* C2 (as claimed): at every train step and every recommendation request the
\* index maps in use are those the model in use was constructed under.
C2_ModelMatchesIndexSpace ==
    lastUse.op # "none" => lastUse.model = lastUse.index

\* C3 (as claimed): no Test scoring step runs between the first and the last
\* gradient step of a training run.
C3_NoScoringWhileTraining ==
    scoredMid = {}

(***************************************************************************)
(* The interaction cap: what a load indexes and what a run trains on.      *)
(***************************************************************************)
\* app.js line 872: maxInteractions: Math.min(50000, this.interactions.length)
AppMaxInteractions == Min(AppTrainCap, Len(interactions))

\* app.js line 876: this.interactions.slice(0, config.maxInteractions)
AppTrainingInteractions == Slice0(interactions, AppMaxInteractions)

\* The interactions a training run started now would draw its pairs from:
\* part_000 line 258 and part_002 line 96 walk the global list, two-tower.js
\* buildPosPairs (236-242) walks usersMap, app.js the slice of line 876.
TrainingInteractions ==
    CASE variant = "appjs" -> AppTrainingInteractions
      [] variant = "twotower" -> indexed
      [] OTHER -> interactions

\* The configured cap: the input field, in app.js the config of line 872.
ConfiguredCap == IF variant = "appjs" THEN AppMaxInteractions ELSE maxInteractIn

\* Number of entries over all user profiles.
RECURSIVE SumLen(_, _)
SumLen(f, keys) ==
    IF keys = {} THEN 0
    ELSE LET k == CHOOSE x \in keys : TRUE
         IN Len(f[k]) + SumLen(f, keys \ {k})

ProfileEntries == SumLen(usersMap, DOMAIN usersMap)

\* C11 (as claimed): after a load with a cap configured, the interactions behind
\* the index spaces, the user profiles and the training pairs are at most the
\* configured maxInteractions, and the index spaces hold only ids of the
\* interactions that are trained on.
C11_CapBoundsInteractionsUsed ==
    (loads > 0 /\ (variant = "appjs" \/ maxInteractIn > 0)) =>
        /\ Len(indexed) <= ConfiguredCap
        /\ ProfileEntries <= ConfiguredCap
        /\ Len(TrainingInteractions) <= ConfiguredCap
        /\ DOMAIN userIndex \subseteq Range(UserIdsOf(indexed))
        /\ DOMAIN itemIndex \subseteq Range(ItemIdsOf(indexed))
        /\ Len(indexed) = Len(TrainingInteractions)

(***************************************************************************)
(* Properties of the batches of an epoch.                                  *)
(***************************************************************************)
\* Math.ceil(n / d)
Ceil(n, d) == (n + d - 1) \div d

RECURSIVE Concat(_)
\* The batches of a log laid end to end.
Concat(log) == IF log = <<>> THEN <<>> ELSE log[1].batch \o Concat(Tail(log))

\* C12 (as claimed): with a configured batch size b >= 1 and P pairs, a finished
\* epoch has sliced exactly ceil(P / b) batches of consecutive post-shuffle pairs,
\* every one but the last of exactly b pairs, the last of the remaining 1..b.
C12_BatchCountAndSizes ==
    (epPc = "done" /\ batchSizeIn >= 1) =>
        /\ Len(batchLog) = Ceil(Len(pairs), batchSizeIn)
        /\ Concat(batchLog) = shuffled
        /\ \A n \in DOMAIN batchLog :
              /\ n < Len(batchLog) => Len(batchLog[n].batch) = batchSizeIn
              /\ Len(batchLog[n].batch) \in 1..batchSizeIn

\* The run is over: its last epoch is.
RunComplete == epPc = "done" /\ epoch = epochs

\* C13 (as claimed): when a training run completes, the loss history holds exactly
\* one entry for every batch a gradient step was taken on, in the order of the
\* steps, and nothing else.
C13_HistoryMatchesSteps ==
    RunComplete => lossHistory = stepLog

(***************************************************************************)
(* The historical top-K: the user's own ratings, best and most recent      *)
(* first.                                                                  *)
(*   two-tower.js getUserTopRatedTitles, lines 220-233                     *)
(*   app.js calculateUserTopRated, lines 847-857                           *)
(*   part_000 testClick, lines 470-483                                     *)
(*   part_002 testModel, lines 131-134                                     *)
(***************************************************************************)
HistEntries == [item : {5, 7, 9}, rating : {3, 5}, ts : {50, 90, 100}]

\* Oldest first.
OldestFirst(a, b) ==
    \/ a.rating > b.rating
    \/ a.rating = b.rating /\ a.ts < b.ts

\* if (b.rating !== a.rating) return b.rating - a.rating; return b.ts - a.ts;
\* and (b.rating - a.rating) || (b.ts - a.ts): negative when a goes first
RatingThenRecency(a, b) ==
    \/ a.rating > b.rating
    \/ a.rating = b.rating /\ a.ts > b.ts

\* two-tower.js lines 222-228
getUserTopRatedTitles(arr, limit) == Slice0(SortBy(arr, RatingThenRecency), limit)

\* app.js lines 851-855
calculateUserTopRated(ratings, limit) == Slice0(SortBy(ratings, RatingThenRecency), limit)

\* part_000 lines 482-483
Part000HistoricalTop(list, limit) == Slice0(SortBy(list, RatingThenRecency), limit)

\* part_002 lines 131-133
Part002Hist(list, limit) == Slice0(SortBy(list, RatingThenRecency), limit)

HistDone(list) ==
    /\ histPc = "idle"
    /\ historicalTop' = list
    /\ histPc' = "done"
    /\ UNCHANGED <<notHist, ratedList, histK>>

HistTwoTower ==
    /\ variant = "twotower"
    /\ HistDone(getUserTopRatedTitles(ratedList, histK))

HistApp ==
    /\ variant = "appjs"
    /\ HistDone(calculateUserTopRated(ratedList, histK))

HistPart000 ==
    /\ variant = "part000"
    /\ HistDone(Part000HistoricalTop(ratedList, histK))

HistPart002 ==
    /\ variant = "part002"
    /\ HistDone(Part002Hist(ratedList, histK))

\* two-tower.js keeps every usersMap list sorted by recency (buildIndexing line
\* 216); the other variants hold the ratings in file or shuffled order.
ProfileLists(v) ==
    LET all == UNION {[1..n -> HistEntries] : n \in 1..MaxRated}
    IN IF v = "twotower"
       THEN {l \in all : \A p, q \in DOMAIN l : p < q => l[p].ts >= l[q].ts}
       ELSE all

InitHist ==
    /\ variant \in Variants
    /\ LoadIdle
    /\ RecIdle
    /\ EpochIdle
    /\ UIIdle
    /\ StepIdle
    /\ ParseIdle
    /\ SampleIdle
    /\ ratedList \in ProfileLists(variant)
    /\ histK \in 1..MaxHistK
    /\ historicalTop = <<>>
    /\ histPc = "idle"

NextHist == HistTwoTower \/ HistApp \/ HistPart000 \/ HistPart002

SpecHist == InitHist /\ [][NextHist]_vars

\* a is rated higher than b, or rated the same and more recently.
RanksAbove(a, b) == a.rating > b.rating \/ (a.rating = b.rating /\ a.ts > b.ts)

\* C14: the historical top-K holds the user's own ratings ordered by rating
\* descending, then timestamp descending, truncated to K: min(K, count) entries,
\* each one of the user's ratings, none left out that ranks above a returned one.
C14_HistoricalTopK ==
    histPc = "done" =>
        /\ Len(historicalTop) = Min(histK, Len(ratedList))
        /\ \A p, q \in DOMAIN historicalTop :
              p < q => ~RanksAbove(historicalTop[q], historicalTop[p])
        /\ \E f \in [DOMAIN historicalTop -> DOMAIN ratedList] :
              /\ \A p, q \in DOMAIN historicalTop : p # q => f[p] # f[q]
              /\ \A p \in DOMAIN historicalTop : ratedList[f[p]] = historicalTop[p]
              /\ \A n \in DOMAIN ratedList \ {f[p] : p \in DOMAIN historicalTop} :
                    \A p \in DOMAIN historicalTop :
                        ~RanksAbove(ratedList[n], historicalTop[p])

\* C14 witness: the ratings (item 5, rating 3, ts 100), (item 7, rating 5, ts 50),
\* (item 9, rating 5, ts 90) give the top-3 order item 9, item 7, item 5.
C14_Witness ==
    /\ histPc = "done"
    /\ ratedList = <<[item |-> 5, rating |-> 3, ts |-> 100],
                     [item |-> 7, rating |-> 5, ts |-> 50],
                     [item |-> 9, rating |-> 5, ts |-> 90]>>
    /\ histK = 3
    /\ historicalTop = <<[item |-> 9, rating |-> 5, ts |-> 90],
                         [item |-> 7, rating |-> 5, ts |-> 50],
                         [item |-> 5, rating |-> 3, ts |-> 100]>>

\* C15 (as claimed): a train step that yields a non-finite loss is the last
\* gradient step of its run, and the non-finite value is not appended to the
\* loss history.
C15_DivergenceAborts ==
    /\ \A n \in DOMAIN stepLog : stepLog[n].loss = "NaN" => n = Len(stepLog)
    /\ \A n \in DOMAIN lossHistory : lossHistory[n].loss # "NaN"


\* C16 (as claimed): an error raised by a train step of a run ends that run and
\* puts the training error on the status line; the loop never goes on after it.
C16_StepErrorEndsRun ==
    [][\A r \in Runs :
          raised'[r] > raised[r] => (runPc'[r] = "idle" /\ status' = "trainError")]_vars

\* C17: a load whose fetch fails ends with the load error on the status line,
\* marks no data as loaded, builds no index and does not enable Train; Train is
\* enabled only once some load has completed.
C17_FetchFailureReported ==
    [][(loadPc = "fetch" /\ loadPc' = "failed") =>
          /\ status' = "loadError"
          /\ dataLoaded' = dataLoaded
          /\ idxGen' = idxGen
          /\ btnTrain' = btnTrain
          /\ btnTrain' => dataLoaded']_vars

\* C17 witness: the first load of a session has failed; nothing is loaded, Train
\* is not enabled and the status line shows the error.
C17_Witness ==
    /\ loadPc = "failed"
    /\ status = "loadError"
    /\ idxGen = 0
    /\ ~dataLoaded
    /\ ~btnTrain


(***************************************************************************)
(* One train step and the scoring after it. tf.variable and tf.tensor hold *)
(* 32-bit floats: a value is finite within F32Max, or an infinity, or NaN. *)
(* The embedding dimension is one. TwoTowerModel.trainStepInBatch (part_003*)
(* 29-57), DeepRecModel.trainStep (part_003 175-229, part_004 400-445),    *)
(* DeepRecModel.scoreAllItems (part_003 235-282), trainStep (part_000      *)
(* 305-343).                                                               *)
(***************************************************************************)
F32(n) == [k |-> "fin", v |-> n]

PInf == [k |-> "inf", v |-> 1]

NInf == [k |-> "inf", v |-> -1]

NaN32 == [k |-> "nan", v |-> 0]

IsFinite(x) == x.k = "fin"

\* the result of an exact operation, as a 32-bit float
Round32(n) ==
    IF n > F32Max THEN PInf
    ELSE IF n < -F32Max THEN NInf
    ELSE F32(n)

Add32(a, b) ==
    IF a.k = "nan" \/ b.k = "nan" THEN NaN32
    ELSE IF a.k = "inf" /\ b.k = "inf" THEN (IF a.v = b.v THEN a ELSE NaN32)
    ELSE IF a.k = "inf" THEN a
    ELSE IF b.k = "inf" THEN b
    ELSE Round32(a.v + b.v)

Neg32(a) == [k |-> a.k, v |-> -a.v]

Sub32(a, b) == Add32(a, Neg32(b))

\* tf.matMul(U, P, false, true)[i][j] and tf.sum(tf.mul(U, P), 1)[i], dimension one
Dot(u, p) == Round32(u * p)

BatchIdx == 1..PairsInBatch

EmbValues == {0, F32Max}

MlpValues == {0, 1}

\* posIdxArr[(i+1) % B], the in-batch negative of pair i
NextInBatch(i) == (i % PairsInBatch) + 1

Logits == [i \in BatchIdx |-> [j \in BatchIdx |-> Dot(embU[i], embP[j])]]

FeatValues == {0, 1}

\* part_003 159-163: the feature rows of the users of a batch
userFeatureLookup(feat, u) == feat[u]

\* part_003 256-262: the feature row tiled over the items when scoring for a
\* user, this.userFeatArray[0] (the first user, 1 here)
ScoringFeatureRow(feat, u) == feat[1]

\* part_003 166-174 on an input row: mlpOut stands for what the MLP makes of
\* the two embeddings and the genres, and the user-feature column, when
\* switched on, adds to it
mlpForward(i, j, featRow) == mlpOut[i][j] + (IF useUserFeat THEN featRow ELSE 0)

\* the scores the caller of the model is promised: dot product plus MLP output
DotPlusMlp ==
    [i \in BatchIdx |-> [j \in BatchIdx |->
        Add32(Logits[i][j], F32(mlpForward(i, j, userFeatureLookup(userFeat, i))))]]

\* part_003 235-282 under the feature array feat, for the user of row u
scoreAllItems(feat, u) ==
    [j \in BatchIdx |->
        IF useFeatures
        THEN Add32(Logits[u][j], F32(mlpForward(u, j, ScoringFeatureRow(feat, u))))
        ELSE Logits[u][j]]

\* tf.losses.softmaxCrossEntropy(labels, logits).mean(): logits - logSumExp(logits)
\* is NaN or infinite as soon as one logit is not finite
SoftmaxLoss(logits) ==
    IF \A i, j \in BatchIdx : IsFinite(logits[i][j]) THEN "finite" ELSE "NaN"

\* tf.neg(tf.log(tf.sigmoid(diff).add(eps))).mean(): sigmoid maps the infinities to
\* 0 and 1, and NaN to NaN
BPRLoss(negOf) ==
    IF \E i \in BatchIdx : Sub32(Logits[i][i], Logits[i][negOf[i]]).k = "nan"
    THEN "NaN" ELSE "finite"

InBatchNegatives == [i \in BatchIdx |-> NextInBatch(i)]

\* part_003 29-57
trainStepInBatch ==
    /\ variant = "twotower"
    /\ dlPc = "idle"
    /\ trainScore' = Logits
    /\ lossKind' = IF useBPR THEN BPRLoss(InBatchNegatives) ELSE SoftmaxLoss(Logits)
    /\ stepOf' = "twotower"
    /\ dlPc' = "stepped"
    /\ UNCHANGED <<notStep, embU, embP, mlpOut, useBPR, useFeatures, userFeat, useUserFeat,
                   servedUser, serveScore>>

\* part_003 175-229: mlpOut is computed (line 202) and neither branch of the loss
\* reads it
DeepTrainStep ==
    /\ variant = "twotower"
    /\ dlPc = "idle"
    /\ trainScore' = Logits
    /\ lossKind' = IF useBPR THEN BPRLoss(InBatchNegatives) ELSE SoftmaxLoss(Logits)
    /\ stepOf' = "deep"
    /\ dlPc' = "stepped"
    /\ UNCHANGED <<notStep, embU, embP, mlpOut, useBPR, useFeatures, userFeat, useUserFeat,
                   servedUser, serveScore>>

\* part_000 305-343, the negatives drawn by batchGenerator (lines 219-227)
Part000LossStep ==
    /\ variant = "part000"
    /\ dlPc = "idle"
    /\ trainScore' = Logits
    /\ \E negs \in [BatchIdx -> BatchIdx] :
          lossKind' = IF useBPR THEN BPRLoss(negs) ELSE SoftmaxLoss(Logits)
    /\ stepOf' = "part000"
    /\ dlPc' = "stepped"
    /\ UNCHANGED <<notStep, embU, embP, mlpOut, useBPR, useFeatures, userFeat, useUserFeat,
                   servedUser, serveScore>>

\* part_003 67-76: the two-tower model scores by dot product
TwoTowerScoreAllItems ==
    /\ dlPc = "stepped"
    /\ stepOf = "twotower"
    /\ \E u \in BatchIdx :
          /\ servedUser' = u
          /\ serveScore' = [j \in BatchIdx |-> Logits[u][j]]
    /\ dlPc' = "served"
    /\ UNCHANGED <<notStep, embU, embP, mlpOut, useBPR, useFeatures, userFeat, useUserFeat,
                   trainScore, lossKind, stepOf>>

\* part_003 235-282: the MLP output is added when a feature is switched on
DeepScoreAllItems ==
    /\ dlPc = "stepped"
    /\ stepOf = "deep"
    /\ \E u \in BatchIdx :
          /\ servedUser' = u
          /\ serveScore' = scoreAllItems(userFeat, u)
    /\ dlPc' = "served"
    /\ UNCHANGED <<notStep, embU, embP, mlpOut, useBPR, useFeatures, userFeat, useUserFeat,
                   trainScore, lossKind, stepOf>>

InitStep ==
    /\ variant \in {"twotower", "part000"}
    /\ LoadIdle
    /\ RecIdle
    /\ EpochIdle
    /\ UIIdle
    /\ HistIdle
    /\ ParseIdle
    /\ SampleIdle
    /\ embU \in [BatchIdx -> EmbValues]
    /\ embP \in [BatchIdx -> EmbValues]
    /\ useBPR \in BOOLEAN
    /\ IF variant = "twotower"
       THEN /\ mlpOut \in [BatchIdx -> [BatchIdx -> MlpValues]]
            /\ useFeatures \in BOOLEAN
            /\ useUserFeat \in {FALSE, useFeatures}
            \* (the array is read only when the user features are switched on)
            /\ userFeat \in IF useUserFeat THEN [BatchIdx -> FeatValues]
                                            ELSE {[i \in BatchIdx |-> 0]}
       ELSE /\ mlpOut = [i \in BatchIdx |-> [j \in BatchIdx |-> 0]]
            /\ useFeatures = FALSE
            /\ useUserFeat = FALSE
            /\ userFeat = [i \in BatchIdx |-> 0]
    /\ servedUser = 0
    /\ trainScore = <<>>
    /\ serveScore = <<>>
    /\ lossKind = "none"
    /\ stepOf = "none"
    /\ dlPc = "idle"

NextStep ==
    \/ trainStepInBatch
    \/ DeepTrainStep
    \/ Part000LossStep
    \/ TwoTowerScoreAllItems
    \/ DeepScoreAllItems

SpecStep == InitStep /\ [][NextStep]_vars

\* C18 (as claimed): the deep model's loss is computed on the dot product plus
\* the MLP output of each pair, in both loss modes, and the scores it serves for
\* a user are those same scores.
C18_TrainingScoreIsServingScore ==
    (stepOf = "deep" /\ dlPc # "idle") =>
        /\ trainScore = DotPlusMlp
        /\ dlPc = "served" => \A j \in BatchIdx : serveScore[j] = trainScore[servedUser][j]

\* C19 (as claimed): with finite embeddings and a batch of two or more pairs, the
\* loss of a train step is a finite number, in-batch softmax or pairwise.
C19_LossFinite ==
    (dlPc # "idle" /\ PairsInBatch >= 2 /\ stepOf \in {"twotower", "part000"}) =>
        lossKind = "finite"


\* C20 (as claimed): in in-batch softmax mode no gradient step is taken on a
\* batch of fewer than two pairs, and such a batch leaves no entry in the loss
\* history.
C20_NoStepOnSinglePairBatch ==
    lossMode = "inbatch" =>
        \A n \in DOMAIN batchLog :
            Len(batchLog[n].batch) < 2 =>
                /\ ~batchLog[n].step
                /\ \A k \in DOMAIN lossHistory :
                      ~(lossHistory[k].epoch = epoch /\ lossHistory[k].batch = n)


\* C21 (as claimed): every epoch starts by drawing a new permutation of the full
\* pair list: a run that has begun e epochs has drawn e permutations.
C21_ShuffleEveryEpoch ==
    /\ shuffles = epoch
    /\ epPc # "idle" => SeqToBag(shuffled) = SeqToBag(pairs)


\* The item indices of the chunks scored so far, in the order they were scored.
RECURSIVE ScoredIndices(_)
ScoredIndices(log) ==
    IF log = <<>> THEN <<>>
    ELSE ScoredIndices(SubSeq(log, 1, Len(log) - 1))
            \o [j \in 1..(log[Len(log)].end - log[Len(log)].start) |->
                   log[Len(log)].start + j - 1]

\* C22: recommendForUser computes the user embedding once and scores the catalog
\* in consecutive chunks of at most BATCH items each; when it returns, the scored
\* indices are 0, 1, ..., numItems - 1, each exactly once.
C22_ChunksCoverCatalog ==
    (variant = "part000" /\ recPc # "idle") =>
        /\ uEmbCount = 1
        /\ \A n \in DOMAIN chunkLog :
              /\ chunkLog[n].end - chunkLog[n].start \in 1..BATCH
              /\ chunkLog[n].start = (IF n = 1 THEN 0 ELSE chunkLog[n - 1].end)
        /\ ScoredIndices(chunkLog) = [j \in 1..Len(ScoredIndices(chunkLog)) |-> j - 1]
        /\ recPc = "done" => Len(ScoredIndices(chunkLog)) = Len(scores)

\* C22 witness: a catalog that needs more than one chunk, the last one shorter
\* than BATCH, has been scored to the end.
C22_Witness ==
    /\ variant = "part000"
    /\ recPc = "done"
    /\ Len(chunkLog) >= 2
    /\ chunkLog[Len(chunkLog)].end - chunkLog[Len(chunkLog)].start < BATCH
    /\ Len(scores) > BATCH


\* C23: in part_000 a batch of B pairs comes with B negatives, each a dense item
\* index of the run's catalog, in pairwise mode (one negative per positive), and
\* with none in in-batch softmax mode.
C23_NegativesPerBatch ==
    variant = "part000" =>
        \A n \in DOMAIN batchLog :
            IF lossMode = "bpr"
            THEN /\ Len(batchLog[n].negs) = Len(batchLog[n].batch)
                 /\ \A k \in DOMAIN batchLog[n].negs :
                       batchLog[n].negs[k] \in {p.i : p \in TrainingPairs}
            ELSE batchLog[n].negs = <<>>

\* C23 witness: a pairwise batch of two pairs; the negative drawn for the first
\* pair is its own positive item.
C23_Witness ==
    /\ variant = "part000"
    /\ lossMode = "bpr"
    /\ \E n \in DOMAIN batchLog :
          /\ Len(batchLog[n].batch) = 2
          /\ Len(batchLog[n].negs) = 2
          /\ batchLog[n].negs[1] = batchLog[n].batch[1].i


(***************************************************************************)
(* The parsing of the ratings file. A line is the sequence of its fields,  *)
(* a field a run of digits or some other text. app.js holds two versions   *)
(* of the class: parseInteractions of lines 69-75 and parseInteractions /  *)
(* createInteraction of lines 725-760; two-tower.js parseDataLine 182-191  *)
(* and the loop of lines 264-270.                                          *)
(***************************************************************************)
FieldTexts == {"1", "x"}

Num(n) == [kind |-> "num", v |-> n]

NaNId == [kind |-> "NaN", v |-> 0]

Undefined == [kind |-> "undefined", v |-> 0]

\* parseInt(text): the number a run of digits spells, NaN for any other text
parseInt(text) == IF text = "1" THEN Num(1) ELSE NaNId

\* parts[k], for k counted from 1
Part(parts, k) == IF k <= Len(parts) THEN parseInt(parts[k]) ELSE Undefined

Interaction(parts) ==
    [userId |-> Part(parts, 1), itemId |-> Part(parts, 2), rating |-> Part(parts, 3)]

\* app.js lines 69-75: every line becomes an interaction
App1Parse(text) == [n \in 1..Len(text) |-> Interaction(text[n])]

\* app.js lines 748-759: null unless user id, item id and rating are numbers
createInteraction(parts) ==
    IF Part(parts, 1).kind # "num" \/ Part(parts, 2).kind # "num"
          \/ Part(parts, 3).kind # "num"
    THEN <<>>
    ELSE <<Interaction(parts)>>

\* app.js lines 725-745: a line of fewer than three fields is dropped, the nulls
\* are filtered out
RECURSIVE App2Parse(_)
App2Parse(text) ==
    IF text = <<>> THEN <<>>
    ELSE (IF Len(Head(text)) < 3 THEN <<>> ELSE createInteraction(Head(text)))
            \o App2Parse(Tail(text))

\* two-tower.js lines 182-191 and 264-270: a line of fewer than four fields is
\* dropped, the fields of any other line go through parseInt unchecked
RECURSIVE TwoTowerParse(_)
TwoTowerParse(text) ==
    IF text = <<>> THEN <<>>
    ELSE (IF Len(Head(text)) < 4 THEN <<>> ELSE <<Interaction(Head(text))>>)
            \o TwoTowerParse(Tail(text))

Parsed(list) ==
    /\ parsePc = "idle"
    /\ stored' = list
    /\ parsePc' = "done"
    /\ UNCHANGED <<notParse, lines, parser>>

App1ParseInteractions ==
    /\ parser = "app1"
    /\ Parsed(App1Parse(lines))

App2ParseInteractions ==
    /\ parser = "app2"
    /\ Parsed(App2Parse(lines))

TwoTowerParseLines ==
    /\ parser = "twotower"
    /\ Parsed(TwoTowerParse(lines))

InitParse ==
    /\ parser \in {"app1", "app2", "twotower"}
    /\ variant = (IF parser = "twotower" THEN "twotower" ELSE "appjs")
    /\ LoadIdle
    /\ RecIdle
    /\ EpochIdle
    /\ UIIdle
    /\ HistIdle
    /\ StepIdle
    /\ SampleIdle
    /\ lines \in UNION {[1..n -> UNION {[1..k -> FieldTexts] : k \in 1..4}] :
                           n \in 1..MaxLines}
    /\ stored = <<>>
    /\ parsePc = "idle"

NextParse == App1ParseInteractions \/ App2ParseInteractions \/ TwoTowerParseLines

SpecParse == InitParse /\ [][NextParse]_vars

\* C24 (as claimed): a line whose user id or item id is not an integer is
\* skipped: no stored interaction, and so no index-map key and no training pair,
\* has a NaN or undefined user or item id.
C24_NoUnparsedIds ==
    \A n \in DOMAIN stored :
        stored[n].userId.kind = "num" /\ stored[n].itemId.kind = "num"


\* C25 (as claimed): after a load every item with a dense index has a metadata
\* entry, in every variant.
C25_IndexedItemsHaveMetadata ==
    loads > 0 => DOMAIN itemIndex \subseteq items

\* C25 (amended): part_000 drops the interactions whose item has no metadata
\* before it indexes: after a load every indexed interaction and every item with
\* a dense index has a metadata entry, and the dense indices are one per item.
C25_Part000DropsUnknownItems ==
    (variant = "part000" /\ loads > 0) =>
        /\ DOMAIN itemIndex \subseteq items
        /\ \A n \in DOMAIN indexed : indexed[n].itemId \in items
        /\ Len(indexToItem) = Cardinality(DOMAIN itemIndex)
        /\ \A i \in DOMAIN indexToItem : indexToItem[i] \in items

\* C25 witness: part_000 has loaded a file with a rating of an item without
\* metadata and a rating of an item with metadata; the second one is indexed.
C25_Witness ==
    /\ variant = "part000"
    /\ loads > 0
    /\ \E n \in DOMAIN raw : raw[n].itemId \notin items
    /\ DOMAIN itemIndex # {}


\* The embedding-table sizes a model built after the load is given: app.js lines
\* 878-892 pass this.users.size and this.items.size (the metadata map); part_000,
\* part_002 and two-tower.js pass the sizes of the index maps.
ModelNumUsers == Cardinality(DOMAIN userIndex)

ModelNumItems ==
    IF variant = "appjs" THEN Cardinality(items) ELSE Cardinality(DOMAIN itemIndex)

\* C26 (as claimed): a model built for the loaded data has as many user rows as
\* the user index map has keys and as many item rows as the item index map has
\* keys: every dense item index of the training data is below numItems, and every
\* index below numItems maps back to an item id.
C26_TableSizesMatchIndexSpaces ==
    loads > 0 =>
        /\ ModelNumUsers = Cardinality(DOMAIN userIndex)
        /\ ModelNumItems = Cardinality(DOMAIN itemIndex)
        /\ \A id \in DOMAIN itemIndex : itemIndex[id] < ModelNumItems
        /\ \A i \in 0..(ModelNumItems - 1) : (i + 1) \in DOMAIN indexToItem


(***************************************************************************)
(* app.js generateSampleData, lines 698-722: for each user a number of     *)
(* ratings is drawn, and each rating draws movies until one comes up that  *)
(* the user has not rated. The 15 movies are SampleMovies here, the 100    *)
(* users SampleUsers, the 10 to 29 ratings MinRatings to 2*SampleMovies-1. *)
(***************************************************************************)
SampleMovieIds == 1..SampleMovies

\* line 700: Math.floor(Math.random() * 20) + 10
RatingCounts == MinRatings..(2 * SampleMovies - 1)

\* lines 699-701: the next user, the number of ratings, an empty ratedItems
SampleNextUser ==
    /\ samplePc = "user"
    /\ sUser' = sUser + 1
    /\ numRatings' \in RatingCounts
    /\ ratedItems' = {}
    /\ redraws' = 0
    /\ samplePc' = "draw"
    /\ UNCHANGED <<notSample, sampleOut>>

\* lines 705-707: a draw that hits a movie the user has rated; the do-while goes
\* round again
SampleDrawRated ==
    /\ samplePc = "draw"
    /\ Cardinality(ratedItems) < numRatings
    /\ \E itemId \in SampleMovieIds : itemId \in ratedItems
    /\ redraws < MaxRedraws
    /\ redraws' = redraws + 1
    /\ UNCHANGED <<notSample, sUser, numRatings, ratedItems, sampleOut, samplePc>>

\* lines 705-719: a draw that hits a movie not rated yet; the rating is pushed
SampleDrawFresh ==
    /\ samplePc = "draw"
    /\ Cardinality(ratedItems) < numRatings
    /\ \E itemId \in SampleMovieIds :
          /\ itemId \notin ratedItems
          /\ ratedItems' = ratedItems \cup {itemId}
          /\ sampleOut' = sampleOut \cup {<<sUser, itemId>>}
    /\ redraws' = 0
    /\ UNCHANGED <<notSample, sUser, numRatings, samplePc>>

\* lines 699 and 703: the user has numRatings ratings; the next user, or the end
SampleUserDone ==
    /\ samplePc = "draw"
    /\ Cardinality(ratedItems) = numRatings
    /\ samplePc' = IF sUser = SampleUsers THEN "done" ELSE "user"
    /\ UNCHANGED <<notSample, sUser, numRatings, ratedItems, redraws, sampleOut>>

InitSample ==
    /\ variant = "appjs"
    /\ LoadIdle
    /\ RecIdle
    /\ EpochIdle
    /\ UIIdle
    /\ HistIdle
    /\ StepIdle
    /\ ParseIdle
    /\ sUser = 0
    /\ numRatings = 0
    /\ ratedItems = {}
    /\ redraws = 0
    /\ sampleOut = {}
    /\ samplePc = "user"

NextSample == SampleNextUser \/ SampleDrawRated \/ SampleDrawFresh \/ SampleUserDone

\* A draw that can hit an unrated movie eventually does.
SpecSample == InitSample /\ [][NextSample]_vars /\ WF_vars(SampleDrawFresh)
                  /\ WF_vars(SampleNextUser) /\ WF_vars(SampleUserDone)

\* C27 (as claimed): generating the sample data set terminates, whatever number
\* of ratings is drawn for each user.
C27_SampleDataTerminates == <>(samplePc = "done")


(***************************************************************************)
(* The end of a test handler: two-tower.js btnTest.onclick 404-469 and the *)
(* part_000 click listener 594-605 around testClick 436-536.               *)
(***************************************************************************)
\* The step in which a test handler returns: its last await resumes (success
\* or exception), or it returns in the turn of the click for want of a user.
TestHandlerReturns ==
    /\ variant \in {"twotower", "part000"}
    /\ \/ testPc = "scoring" /\ testPc' = "idle"
       \/ testPc = "idle" /\ clicks' = clicks + 1 /\ status' = "noUser"

\* The buttons the handler disabled at its start: all three in two-tower.js
\* (line 406), the Test button in part_000 (line 595).
DisabledAtTestStart ==
    IF variant = "twotower" THEN {"load", "train", "test"} ELSE {"test"}

\* C28 (as claimed): on every path through the test handler (success,
\* exception, no user with at least 20 ratings) the buttons it disabled at its
\* start are enabled again when it returns.
C28_TestReenablesControls ==
    [][TestHandlerReturns =>
          /\ "load" \in DisabledAtTestStart => btnLoad'
          /\ "train" \in DisabledAtTestStart => btnTrain'
          /\ "test" \in DisabledAtTestStart => btnTest']_vars

\* C28: the state the claim rules out, a page at rest with no button to click.
C28_AllControlsDisabled ==
    /\ testPc = "idle"
    /\ loadPc # "fetch"
    /\ \A r \in Runs : runPc[r] = "idle"
    /\ ~btnLoad /\ ~btnTrain /\ ~btnTest


(***************************************************************************)
(* Training runs in flight: part_002 trainModel 77-119, app.js             *)
(* trainModels 859-967, two-tower.js btnTrain.onclick 286-402, the         *)
(* part_000 listener 584-593.                                              *)
(***************************************************************************)
\* The runs whose loop has started and has not yet returned or thrown
ActiveRuns == {r \in Runs : runPc[r] # "idle"}

\* C29 (as claimed): at most one training run is in flight at any time, so no
\* two training loops interleave on the shared model, data and loss history.
C29_OneTrainingRun ==
    Cardinality(ActiveRuns) <= 1


\* C30 (as claimed): with the user features switched on, the deep model's
\* scores for user u are computed on u's own feature vector, the one training
\* looks up for u, so no other user's features have a part in them.
C30_OwnUserFeatures ==
    (dlPc = "served" /\ stepOf = "deep" /\ useUserFeat) =>
        /\ \A j \in BatchIdx :
              serveScore[j] =
                  Add32(Logits[servedUser][j],
                        F32(mlpForward(servedUser, j,
                                       userFeatureLookup(userFeat, servedUser))))
        /\ \A other \in [BatchIdx -> FeatValues] :
              other[servedUser] = userFeat[servedUser] =>
                  scoreAllItems(other, servedUser) = serveScore

============================================================================
